---------------------------- MODULE Spec2Model ----------------------------
(***************************************************************************)
(* Shiny Stash Live Map (source/main.cpp): the stash read-and-decode       *)
(* pipeline and the main loop that drives it, as a state machine.          *)
(*                                                                         *)
(* Representation.  Memory is little-endian (AArch64), and every access    *)
(* the decode makes is 2-byte aligned, so a byte buffer is modelled as the *)
(* sequence of its 16-bit little-endian words: byte offset o is word       *)
(* o \div 2 + 1.  A u32 is the pair <<low word, high word>>; a u64 is the  *)
(* tuple of its four words, lowest first.  All arithmetic keeps its width. *)
(***************************************************************************)
EXTENDS Integers, Sequences, FiniteSets, TLC

(***************************************************************************)
(* Fixed-width helpers                                                     *)
(***************************************************************************)
W16 == 2^16

RECURSIVE XorBits(_, _, _)
XorBits(a, b, n) ==
    IF n = 0 THEN 0
    ELSE ((a + b) % 2) + (2 * XorBits(a \div 2, b \div 2, n - 1))

\* 4-bit XOR table; a 16-bit XOR is four lookups.
NibXor == [a \in 0..15 |-> [b \in 0..15 |-> XorBits(a, b, 4)]]

Xor16(a, b) ==
      NibXor[a % 16][b % 16]
    + (16   * NibXor[(a \div 16) % 16][(b \div 16) % 16])
    + (256  * NibXor[(a \div 256) % 16][(b \div 256) % 16])
    + (4096 * NibXor[(a \div 4096) % 16][(b \div 4096) % 16])

(***************************************************************************)
(* Constants (main.cpp:23-29, 161-164)                                     *)
(***************************************************************************)
SHINY_STASH_SIZE == 4960
ENTRY_SIZE       == 496
PA9_DATA_OFFSET  == 8
PA9_SPECIES_OFF  == 8
PA9_SIZE         == 344
LCRNG_MULT       == 1103515245
LCRNG_ADD        == 24691
PKX_HEADER       == 8
PKX_BLOCK        == 80

\* 0xCBF29CE484222645, lowest word first
TERMINATOR_HASH == <<9797, 33826, 40164, 52210>>
ZERO_HASH       == <<0, 0, 0, 0>>

g_blockPos == <<
    0,1,2,3, 0,1,3,2, 0,2,1,3, 0,3,1,2, 0,2,3,1, 0,3,2,1,
    1,0,2,3, 1,0,3,2, 2,0,1,3, 3,0,1,2, 2,0,3,1, 3,0,2,1,
    1,2,0,3, 1,3,0,2, 2,1,0,3, 3,1,0,2, 2,3,0,1, 3,2,0,1,
    1,2,3,0, 1,3,2,0, 2,1,3,0, 3,1,2,0, 2,3,1,0, 3,2,1,0,
    0,1,2,3, 0,1,3,2, 0,2,1,3, 0,3,1,2, 0,2,3,1, 0,3,2,1,
    1,0,2,3, 1,0,3,2 >>

g_t9 == <<
    65,-1,-1,-1,-1,31,31,47,47,29,29,53,31,31,46,44,30,30,-7,-7,-7,13,13,
    -2,-2,23,23,24,-21,-21,27,27,47,47,47,26,14,-33,-33,-33,-17,-17,3,-29,
    12,-12,-31,-31,-31,3,3,-24,-24,-44,-44,-30,-30,-28,-28,23,23,6,7,29,8,
    3,4,4,20,4,23,6,3,3,4,-1,13,9,7,5,7,9,9,-43,-43,-43,-68,-68,-68,-58,
    -58,-25,-29,-31,6,-1,6,0,0,0,3,3,4,2,3,3,-5,-12,-12 >>

(***************************************************************************)
(* PKX decryption (main.cpp:176-196)                                       *)
(***************************************************************************)
\* seed = seed * LCRNG_MULT + LCRNG_ADD in u32, on <<low, high>> words
LcrngNext(seed) ==
    LET ml   == LCRNG_MULT % W16
        mh   == LCRNG_MULT \div W16
        low  == seed[1] * ml + LCRNG_ADD
        high == (((seed[2] * ml) % W16) + ((seed[1] * mh) % W16) + (low \div W16)) % W16
    IN  <<low % W16, high>>

\* the n successive generator states after seed (the loop's values of seed),
\* split in halves to keep the evaluation shallow
RECURSIVE LcrngStates(_, _)
LcrngStates(seed, n) ==
    IF n = 0 THEN <<>>
    ELSE IF n = 1 THEN <<LcrngNext(seed)>>
    ELSE LET a == LcrngStates(seed, n \div 2)
         IN  a \o LcrngStates(a[Len(a)], n - (n \div 2))

\* mutant: the word is XORed with the low half of the state (no >> 16)
XorPhase_LowWord(data, len) ==
    LET count == (len - PKX_HEADER) \div 2
        hw    == PKX_HEADER \div 2
        st    == LcrngStates(<<data[1], data[2]>>, count)
    IN  [k \in 1..Len(data) |->
            IF k > hw /\ k <= hw + count THEN Xor16(data[k], st[k - hw][1])
            ELSE data[k]]

\* count = (len - PKX_HEADER) / 2; ptr = data + PKX_HEADER;
\* for (i = 0; i < count; i++) { seed = next(seed); ptr[i] ^= (u16)(seed >> 16); }
XorPhase(data, len) ==
    LET count == (len - PKX_HEADER) \div 2
        hw    == PKX_HEADER \div 2
        st    == LcrngStates(<<data[1], data[2]>>, count)
    IN  [k \in 1..Len(data) |->
            IF k > hw /\ k <= hw + count THEN Xor16(data[k], st[k - hw][2])
            ELSE data[k]]

\* mutant: the shift is one bit short
Selector_Shift12(data) == ((data[1] \div 4096) + (16 * data[2])) % 32

\* sv = (ec >> 13) & 31, ec taken from the untouched header of data
Selector(data) == (data[1] \div 8192) + (8 * (data[2] % 4))

\* mutant: the row is applied the other way round (temp[order[b]] = block b)
UnshufflePhase_Inverse(data) ==
    LET sv == Selector(data)
        bw == PKX_BLOCK \div 2
        hw == PKX_HEADER \div 2
    IN  [k \in 1..Len(data) |->
            IF k > hw /\ k <= hw + 4 * bw
            THEN LET c == (k - hw - 1) \div bw
                     w == (k - hw - 1) % bw
                     b == CHOOSE b \in 0..3 : g_blockPos[sv * 4 + b + 1] = c
                 IN  data[hw + (b * bw) + w + 1]
            ELSE data[k]]

\* mutant: the row starts at entry sv of the table, not sv * 4
UnshufflePhase_RowOnly(data) ==
    LET sv == Selector(data)
        bw == PKX_BLOCK \div 2
        hw == PKX_HEADER \div 2
    IN  [k \in 1..Len(data) |->
            IF k > hw /\ k <= hw + 4 * bw
            THEN LET b == (k - hw - 1) \div bw
                     w == (k - hw - 1) % bw
                 IN  data[hw + (g_blockPos[sv + b + 1] * bw) + w + 1]
            ELSE data[k]]

\* temp[b] = block order[b] of data; data[PKX_HEADER ..] = temp
UnshufflePhase(data) ==
    LET sv == Selector(data)
        bw == PKX_BLOCK \div 2
        hw == PKX_HEADER \div 2
    IN  [k \in 1..Len(data) |->
            IF k > hw /\ k <= hw + 4 * bw
            THEN LET b == (k - hw - 1) \div bw
                     w == (k - hw - 1) % bw
                 IN  data[hw + (g_blockPos[sv * 4 + b + 1] * bw) + w + 1]
            ELSE data[k]]

decryptPA9(data, len) == UnshufflePhase(XorPhase(data, len))

(***************************************************************************)
(* Gen9 species converter (main.cpp:202-214)                               *)
(***************************************************************************)
\* mutant: the first ordinal of the window is left out
getNational9_OffByOne(raw) ==
    LET s == raw - 917
    IN  IF s <= 0 \/ s >= Len(g_t9) THEN raw
        ELSE (raw + g_t9[s + 1]) % W16

\* mutant: the last ordinal of the window is left out
getNational9_ShortWindow(raw) ==
    LET s == raw - 917
    IN  IF s < 0 \/ s >= Len(g_t9) - 1 THEN raw
        ELSE (raw + g_t9[s + 1]) % W16

\* s = raw - 917; if (s < 0 || s >= sizeof(g_t9)) return raw;
\* return (u16)(raw + g_t9[s]);
getNational9(raw) ==
    LET s == raw - 917
    IN  IF s < 0 \/ s >= Len(g_t9) THEN raw
        ELSE (raw + g_t9[s + 1]) % W16

(***************************************************************************)
(* Version table (main.cpp:32-42); a build id is its 8 bytes               *)
(***************************************************************************)
g_versions == <<
    [build_id |-> <<188,229,213,57,59,90,163,168>>, version |-> "2.0.1"],
    [build_id |-> <<138,28,134,196,55,57,75,105>>,  version |-> "2.0.0"],
    [build_id |-> <<23,156,56,67,185,132,248,120>>, version |-> "1.0.3"] >>

\* for (v : g_versions) if (memcmp(id, v.build_id, 8) == 0) { ver = &v; break; }
\* 0 stands for the null pointer, k for &g_versions[k-1]
RECURSIVE findVersionFrom(_, _)
findVersionFrom(k, id) ==
    IF k > Len(g_versions) THEN 0
    ELSE IF g_versions[k].build_id = id THEN k
    ELSE findVersionFrom(k + 1, id)

\* mutant: an unknown build id falls back to the first table entry
findVersion_Fallback(id) ==
    IF findVersionFrom(1, id) = 0 THEN 1 ELSE findVersionFrom(1, id)

findVersion(id) == findVersionFrom(1, id)

(***************************************************************************)
(* Inputs: what the game process and romfs can hold.                       *)
(*                                                                         *)
(* The game keeps each stash entry as an 8-byte hash followed by a         *)
(* PKX-encrypted PA9 record.  A stash is described by its plaintext        *)
(* entries; the bytes the read returns are the encoding of that            *)
(* description.  The encoder is written independently of decryptPA9 (its   *)
(* own keystream, the inverse block arrangement), so agreement between     *)
(* the two is something the checks can refute.                             *)
(***************************************************************************)
MaxVar == 2

\* identity hashes, lowest word first
KH(n)      == <<n, 3 * n, 0, 32768 + n>>
H_LOWZERO  == <<0, 0, 0, 1>>
H_NEARTERM == <<9797, 33826, 40164, 52211>>
UH         == <<61, 62, 63, 64>>

\* a seed whose bits 13..17 are sel, the other bits spread by v
SeedFor(sel, v) ==
    << ((sel % 8) * 8192) + ((v * 1237 + 5) % 8192),
       (sel \div 8) + (4 * ((v * 911 + 3) % 16384)) >>

Entry(h, ec, sp) == [hash |-> h, ec |-> ec, species |-> sp]

\* plaintext PA9: header (ec, sanity, checksum), species in the first word
\* after the header, then a pattern that differs from word to word
PlainPA9(e) ==
    [k \in 1..(PA9_SIZE \div 2) |->
        IF k = 1 THEN e.ec[1]
        ELSE IF k = 2 THEN e.ec[2]
        ELSE IF k = 3 THEN 0
        ELSE IF k = 4 THEN 4660
        ELSE IF k = 5 THEN e.species
        ELSE ((k * 251) + (e.species * 7) + e.ec[1]) % W16]

\* reference keystream: the top word of the k-th LCG state after seed,
\* computed on 8-bit limbs b0..b3 of the state
RefLcg(b) ==
    LET m  == <<109, 78, 198, 65>>
        c0 == (b[1] * m[1]) + 115
        c1 == (b[1] * m[2]) + (b[2] * m[1]) + 96 + (c0 \div 256)
        c2 == (b[1] * m[3]) + (b[2] * m[2]) + (b[3] * m[1]) + (c1 \div 256)
        c3 == (b[1] * m[4]) + (b[2] * m[3]) + (b[3] * m[2]) + (b[4] * m[1])
              + (c2 \div 256)
    IN  <<c0 % 256, c1 % 256, c2 % 256, c3 % 256>>

RECURSIVE RefStates(_, _)
RefStates(b, n) ==
    IF n = 0 THEN <<>>
    ELSE IF n = 1 THEN <<RefLcg(b)>>
    ELSE LET a == RefStates(b, n \div 2)
         IN  a \o RefStates(a[Len(a)], n - (n \div 2))

RefKeystream(b, n) ==
    LET st == RefStates(b, n)
    IN  [k \in 1..n |-> st[k][3] + (256 * st[k][4])]

RefXor(x) ==
    LET ks == RefKeystream(<<x[1] % 256, x[1] \div 256, x[2] % 256, x[2] \div 256>>,
                           Len(x) - 4)
    IN  [k \in 1..Len(x) |-> IF k <= 4 THEN x[k] ELSE Xor16(x[k], ks[k - 4])]

\* the table row of a 32-bit value: entries 4*sel .. 4*sel+3
RefRow(x) ==
    LET sel == ((x[1] \div 8192) % 8) + (8 * (x[2] % 4))
    IN  [b \in 0..3 |-> g_blockPos[(4 * sel) + b + 1]]

\* rearrange the four 40-word blocks by the inverse of the row: plaintext
\* block b goes to position row[b]
RefShuffle(x) ==
    LET row == RefRow(x)
        inv == [c \in 0..3 |-> CHOOSE b \in 0..3 : row[b] = c]
    IN  [k \in 1..Len(x) |->
            IF k >= 5 /\ k <= 164
            THEN x[4 + (inv[(k - 5) \div 40] * 40) + ((k - 5) % 40) + 1]
            ELSE x[k]]

EncryptPA9(x) == RefXor(RefShuffle(x))

SlotPad == [k \in 1..((ENTRY_SIZE - PA9_DATA_OFFSET - PA9_SIZE) \div 2) |-> 43690]

EncodeSlot(e) == e.hash \o EncryptPA9(PlainPA9(e)) \o SlotPad

\* a slot of untouched zero memory, and what it reads as
ZeroSlot  == [k \in 1..(ENTRY_SIZE \div 2) |-> 0]
ZeroEntry == Entry(ZERO_HASH, <<0, 0>>, 0)

MAX_SLOTS == SHINY_STASH_SIZE \div ENTRY_SIZE

Templates == <<
    Entry(ZERO_HASH,       SeedFor(13, 1), 25),
    Entry(TERMINATOR_HASH, SeedFor(2, 2),  26),
    Entry(KH(1),           SeedFor(12, 3), 920),
    Entry(KH(1),           SeedFor(29, 4), 1025),
    Entry(KH(2),           SeedFor(18, 5), 0),
    Entry(UH,              SeedFor(7, 6),  133) >>

TailFull == <<
    Entry(KH(2),      SeedFor(21, 7),  917),
    Entry(KH(1),      SeedFor(3, 8),   77),
    Entry(KH(3),      SeedFor(16, 9),  916),
    Entry(H_LOWZERO,  SeedFor(31, 10), 1026),
    Entry(H_NEARTERM, SeedFor(0, 11),  65535),
    Entry(KH(4),      SeedFor(9, 12),  1),
    Entry(UH,         SeedFor(24, 13), 5),
    Entry(KH(2),      SeedFor(14, 14), 9),
    Entry(KH(5),      SeedFor(5, 15),  500),
    Entry(KH(6),      SeedFor(27, 16), 600) >>

\* ten distinct known entries whose seeds sweep the selectors
Sweep(j) ==
    [n \in 1..MAX_SLOTS |->
        Entry(KH(n), SeedFor(((10 * j) + n - 1) % 32, 20 + (10 * j) + n),
              900 + (3 * ((10 * j) + n - 1)))]

Prefixes == [1..MaxVar -> 1..Len(Templates)]

\* descriptions: MaxVar leading template slots, then a full or a zero tail
StashDescs ==
       { [n \in 1..MAX_SLOTS |->
            IF n <= MaxVar THEN Templates[p[n]]
            ELSE IF full THEN TailFull[n - MaxVar] ELSE ZeroEntry]
         : p \in Prefixes, full \in BOOLEAN }
    \cup { Sweep(j) : j \in 0..3 }

RECURSIVE Concat(_, _)
Concat(f, n) == IF n = 0 THEN <<>> ELSE Concat(f, n - 1) \o f[n]

EncodeStash(d) ==
    Concat([n \in 1..Len(d) |->
              IF d[n] = ZeroEntry THEN ZeroSlot ELSE EncodeSlot(d[n])], Len(d))

\* every description with the bytes the stash read returns for it
Snapshots == { <<d, EncodeStash(d)>> : d \in StashDescs }

BuildIds == { g_versions[k].build_id : k \in 1..Len(g_versions) }
            \cup { <<188,229,213,57,59,90,163,169>> }

\* romfs spawner files t1..t4, already split into lines (hash, label)
Line(h, l) == [hash |-> h, loc |-> l]

RomfsSets == {
    << << Line(KH(1), "a1"), Line(KH(2), "a2"), Line(KH(3), "a3"), Line(KH(1), "a4") >>,
       << Line(KH(4), "b1"), Line(KH(2), "b2"), Line(H_LOWZERO, "b3") >>,
       << Line(KH(5), "c1"), Line(KH(6), "c2"), Line(KH(7), "c3"), Line(H_NEARTERM, "c4") >>,
       << Line(KH(8), "d1"), Line(KH(9), "d2"), Line(KH(10), "d3") >> >>,
    << << >>,
       << Line(KH(2), "b1"), Line(KH(1), "b2"), Line(KH(10), "b3") >>,
       << Line(KH(1), "c1"), Line(KH(3), "c2"), Line(KH(4), "c3"), Line(KH(5), "c4") >>,
       << Line(KH(6), "d1"), Line(KH(7), "d2"), Line(KH(8), "d3"), Line(KH(9), "d4"),
          Line(KH(6), "d5") >> >> }

KDownSets == { {}, {"Plus"}, {"Minus"}, {"B"}, {"A"}, {"Down"}, {"Up"},
               {"A", "Down"}, {"Minus", "A"}, {"Minus", "B"}, {"Down", "Up"} }

(***************************************************************************)
(* State                                                                   *)
(*  pc            where the program is: "boot" (before loadData), "idle"   *)
(*                (top of the main loop), the steps of readShinyStash,     *)
(*                "nav" (the rest of the frame after the read), "exited"   *)
(*  kDown         the buttons pressed in the current frame ({} between     *)
(*                frames)                                                  *)
(*  romfs         the four spawner files; stash: the description of the    *)
(*                game's stash behind the bytes of the last stash read     *)
(*  dmntOpen      whether the dmnt:cht session is open; memReads: the      *)
(*                process-memory reads made since A was last pressed       *)
(*  buf, i, hash, pa9, specInt, ndex, ptrI: locals of readShinyStash       *)
(*                (buf = <<>> when not allocated)                          *)
(*  g_selSpawner  an index into g_spawners, 0 for nullptr                  *)
(*  trace         the service and heap calls readShinyStash has made since *)
(*                A was last pressed, in order                             *)
(*  acc           the extent of the memory the last pass of the decode     *)
(*                loop touched (<<>> outside the loop)                     *)
(*  hadEntries    on entry to readShinyStash, whether the record list was  *)
(*                non-empty when A was pressed (FALSE from its first call  *)
(*                on)                                                      *)
(*  launch        what the pad has seen since launch: "fresh" (no frame    *)
(*                yet), "quiet" (frames, none with a button pressed),      *)
(*                "used" (some button has been pressed)                    *)
(*  curMap, worldX, worldZ, texX, texZ: a map, a world position on it and  *)
(*                its projection (renderMap)                               *)
(***************************************************************************)
VARIABLES pc, running, kDown, g_showAbout,
          g_spawners, g_entries, g_selIdx, g_selSpawner,
          g_statusMsg, g_gameVersion, g_detectedBid,
          romfs, stash, dmntOpen, memReads,
          buf, i, hash, pa9, specInt, ndex, ptrI,
          trace, acc, hadEntries, launch,
          curMap, worldX, worldZ, texX, texZ

vars == <<pc, running, kDown, g_showAbout,
          g_spawners, g_entries, g_selIdx, g_selSpawner,
          g_statusMsg, g_gameVersion, g_detectedBid,
          romfs, stash, dmntOpen, memReads,
          buf, i, hash, pa9, specInt, ndex, ptrI,
          trace, acc, hadEntries, launch,
          curMap, worldX, worldZ, texX, texZ>>

globals == <<g_spawners, g_entries, g_selIdx, g_selSpawner,
             g_statusMsg, g_gameVersion, g_detectedBid>>
locals  == <<buf, i, hash, pa9, specInt, ndex, ptrI, acc>>
view    == <<curMap, worldX, worldZ, texX, texZ>>

\* a status line: fixed text, or "<n> shiny entries loaded (v<ver>)"
Msg(t)       == [text |-> t, n |-> 0, ver |-> ""]
LoadedMsg(n, v) == [text |-> " shiny entries loaded (v", n |-> n, ver |-> v]

(***************************************************************************)
(* Data loading (main.cpp:302-367): the spawner part of loadData           *)
(***************************************************************************)
\* one push_back per line, in line order
parseSpawnerFile(spawners, content, mapIdx) ==
    spawners \o [k \in 1..Len(content) |->
                    [hash |-> content[k].hash, mapIdx |-> mapIdx,
                     location |-> content[k].loc]]

\* for (f : files) { content = read(f.path); if (!content.empty()) parse(content, f.idx); }
RECURSIVE loadSpawners(_, _, _)
loadSpawners(spawners, files, k) ==
    IF k > Len(files) THEN spawners
    ELSE loadSpawners(IF files[k] # <<>>
                      THEN parseSpawnerFile(spawners, files[k], k - 1)
                      ELSE spawners,
                      files, k + 1)

loadData ==
    /\ pc = "boot"
    /\ g_spawners' = loadSpawners(g_spawners, romfs, 1)
    /\ pc' = "idle"
    /\ UNCHANGED <<running, kDown, g_showAbout, g_entries, g_selIdx, g_selSpawner,
                   g_statusMsg, g_gameVersion, g_detectedBid,
                   romfs, stash, dmntOpen, memReads, locals,
                   trace, hadEntries, launch, view>>

(***************************************************************************)
(* Lookup and selection (main.cpp:389-399)                                 *)
(***************************************************************************)
\* for (sp : g_spawners) if (sp.hash == hash) return &sp;  return nullptr;
RECURSIVE findSpawnerFrom(_, _)
findSpawnerFrom(k, h) ==
    IF k > Len(g_spawners) THEN 0
    ELSE IF g_spawners[k].hash = h THEN k
    ELSE findSpawnerFrom(k + 1, h)

\* mutant: the scan does not stop at the first match
findSpawner_Last(h) ==
    LET S == {k \in 1..Len(g_spawners) : g_spawners[k].hash = h}
    IN  IF S = {} THEN 0 ELSE CHOOSE k \in S : \A m \in S : m <= k

findSpawner(h) == findSpawnerFrom(1, h)

\* the value updateSelection leaves in g_selSpawner
updateSelection(selIdx, entries) ==
    IF selIdx >= 0 /\ selIdx < Len(entries)
    THEN findSpawner(entries[selIdx + 1].hash)
    ELSE 0

(***************************************************************************)
(* Main loop (main.cpp:843-897)                                            *)
(***************************************************************************)
\* mutant: Down tests g_selIdx against size, not size - 1
Navigate_PastEnd(k, sel, sp, entries) ==
    LET downHit == "Down" \in k /\ entries # <<>> /\ sel < Len(entries)
        sel1    == IF downHit THEN sel + 1 ELSE sel
        sp1     == IF downHit THEN updateSelection(sel1, entries) ELSE sp
        upHit   == "Up" \in k /\ entries # <<>> /\ sel1 > 0
        sel2    == IF upHit THEN sel1 - 1 ELSE sel1
        sp2     == IF upHit THEN updateSelection(sel2, entries) ELSE sp1
    IN  <<sel2, sp2>>

\* D-Pad Down then D-Pad Up of one frame: <<g_selIdx, g_selSpawner>> after
Navigate(k, sel, sp, entries) ==
    LET downHit == "Down" \in k /\ entries # <<>> /\ sel < Len(entries) - 1
        sel1    == IF downHit THEN sel + 1 ELSE sel
        sp1     == IF downHit THEN updateSelection(sel1, entries) ELSE sp
        upHit   == "Up" \in k /\ entries # <<>> /\ sel1 > 0
        sel2    == IF upHit THEN sel1 - 1 ELSE sel1
        sp2     == IF upHit THEN updateSelection(sel2, entries) ELSE sp1
    IN  <<sel2, sp2>>

\* while (running && appletMainLoop()): where a finished frame goes
LoopTop(run) == IF run THEN "idle" ELSE "exited"

\* mutant: the list of the previous read is kept
clearEntries_Keep(entries) == entries

\* g_entries.clear() (main.cpp:402)
clearEntries(entries) == <<>>

\* mutant: the screen is tested before the Minus toggle is applied
aboutShown_BeforeToggle(k, showAbout) == showAbout

\* g_showAbout as tested at main.cpp:855, after the Minus toggle of 852-854
aboutShown(k, showAbout) == IF "Minus" \in k THEN ~showAbout ELSE showAbout

\* one frame with buttons k, up to the call of readShinyStash (or the whole
\* frame, when A is not pressed or the About screen is up); with A, also
\* the clearing that opens readShinyStash (main.cpp:402-406)
FrameK(k) ==
    /\ pc = "idle"
    /\ LET run   == IF "Plus" \in k THEN FALSE ELSE running
           about == aboutShown(k, g_showAbout)
       IN  /\ kDown' = IF ~about /\ "A" \in k THEN k ELSE {}
           /\ running' = run
           /\ launch' = IF k # {} THEN "used"
                        ELSE IF launch = "fresh" THEN "quiet" ELSE launch
           /\ IF about
              THEN /\ g_showAbout' = IF "B" \in k THEN FALSE ELSE about
                   /\ pc' = LoopTop(run)
                   /\ UNCHANGED <<globals, stash, memReads, trace, hadEntries>>
              ELSE IF "A" \in k
              THEN /\ g_showAbout' = about
                   /\ g_statusMsg' = Msg("Reading...")
                   /\ g_entries' = clearEntries(g_entries)
                   /\ g_selIdx' = 0
                   /\ g_selSpawner' = 0
                   /\ g_detectedBid' = <<>>
                   /\ stash' = <<>>
                   /\ memReads' = 0
                   /\ trace' = <<>>
                   /\ hadEntries' = (g_entries # <<>>)
                   /\ pc' = "init"
                   /\ UNCHANGED <<g_spawners, g_gameVersion>>
              ELSE LET nav == Navigate(k, g_selIdx, g_selSpawner, g_entries)
                   IN  /\ g_showAbout' = about
                       /\ g_selIdx' = nav[1]
                       /\ g_selSpawner' = nav[2]
                       /\ pc' = LoopTop(run)
                       /\ UNCHANGED <<g_spawners, g_entries, g_statusMsg,
                                      g_gameVersion, g_detectedBid, stash, memReads,
                                      trace, hadEntries>>
    /\ UNCHANGED <<romfs, dmntOpen, locals, view>>

\* kDown = padGetButtonsDown(&pad): any combination of buttons
Frame == \E k \in KDownSets : FrameK(k)

\* the frame after readShinyStash has returned (main.cpp:875-897)
FrameRest ==
    /\ pc = "nav"
    /\ LET nav == Navigate(kDown, g_selIdx, g_selSpawner, g_entries)
       IN  /\ g_selIdx' = nav[1]
           /\ g_selSpawner' = nav[2]
    /\ pc' = LoopTop(running)
    /\ kDown' = {}
    /\ UNCHANGED <<running, g_showAbout, g_spawners, g_entries,
                   g_statusMsg, g_gameVersion, g_detectedBid,
                   romfs, stash, dmntOpen, memReads, locals,
                   trace, hadEntries, launch, view>>

(***************************************************************************)
(* readShinyStash (main.cpp:401-508), one action per service call          *)
(***************************************************************************)
\* the locals once the function has returned
NoLocals ==
    /\ buf' = <<>> /\ i' = 0 /\ hash' = ZERO_HASH /\ pa9' = <<>>
    /\ specInt' = 0 /\ ndex' = 0 /\ ptrI' = 0 /\ acc' = <<>>

\* rc = dmntchtInitialize(); on failure return without dmntchtExit
DmntInit ==
    /\ pc = "init"
    /\ \E ok \in BOOLEAN :
        IF ok
        THEN /\ dmntOpen' = TRUE
             /\ trace' = Append(trace, "init")
             /\ pc' = "hasproc"
             /\ UNCHANGED g_statusMsg
        ELSE /\ g_statusMsg' = Msg("dmntcht init failed")
             /\ trace' = Append(trace, "initfail")
             /\ pc' = "nav"
             /\ UNCHANGED dmntOpen
    /\ hadEntries' = FALSE
    /\ UNCHANGED <<running, kDown, g_showAbout, g_spawners, g_entries, g_selIdx,
                   g_selSpawner, g_gameVersion, g_detectedBid, romfs, stash,
                   memReads, locals, launch, view>>

\* dmntchtHasCheatProcess, then dmntchtForceOpenCheatProcess
DmntHasProc ==
    /\ pc = "hasproc"
    /\ \E ok \in BOOLEAN, hasProc \in BOOLEAN :
        IF ok /\ hasProc
        THEN /\ pc' = "forceopen"
             /\ UNCHANGED <<g_statusMsg, dmntOpen, trace>>
        ELSE /\ g_statusMsg' = Msg("No cheat process (is Atmosphere running?)")
             /\ dmntOpen' = FALSE
             /\ trace' = Append(trace, "exit")
             /\ pc' = "nav"
    /\ UNCHANGED <<running, kDown, g_showAbout, g_spawners, g_entries, g_selIdx,
                   g_selSpawner, g_gameVersion, g_detectedBid, romfs, stash,
                   memReads, locals, hadEntries, launch, view>>

DmntForceOpen ==
    /\ pc = "forceopen"
    /\ \E ok \in BOOLEAN :
        IF ok
        THEN /\ pc' = "meta"
             /\ UNCHANGED <<g_statusMsg, dmntOpen, trace>>
        ELSE /\ g_statusMsg' = Msg("Can't open cheat process")
             /\ dmntOpen' = FALSE
             /\ trace' = Append(trace, "exit")
             /\ pc' = "nav"
    /\ UNCHANGED <<running, kDown, g_showAbout, g_spawners, g_entries, g_selIdx,
                   g_selSpawner, g_gameVersion, g_detectedBid, romfs, stash,
                   memReads, locals, hadEntries, launch, view>>

\* dmntchtGetCheatProcessMetadata, the title check and the version
\* detection (main.cpp:424-459)
DmntMetadata ==
    /\ pc = "meta"
    /\ \E ok \in BOOLEAN, titleOk \in BOOLEAN, bid \in BuildIds :
        IF ~ok
        THEN /\ g_statusMsg' = Msg("Metadata read failed")
             /\ pc' = "done"
             /\ UNCHANGED <<g_detectedBid, g_gameVersion>>
        ELSE IF ~titleOk
        THEN /\ g_statusMsg' = Msg("Pokemon Legends: Z-A is not running")
             /\ pc' = "done"
             /\ UNCHANGED <<g_detectedBid, g_gameVersion>>
        ELSE LET ver == findVersion(bid)
             IN  /\ g_detectedBid' = bid
                 /\ IF ver = 0
                    THEN /\ g_statusMsg' = Msg("Unsupported game version")
                         /\ g_gameVersion' = ""
                         /\ pc' = "done"
                    ELSE /\ g_gameVersion' = g_versions[ver].version
                         /\ pc' = "ptr"
                         /\ UNCHANGED g_statusMsg
    /\ UNCHANGED <<running, kDown, g_showAbout, g_spawners, g_entries, g_selIdx,
                   g_selSpawner, romfs, stash, dmntOpen, memReads, locals,
                   trace, hadEntries, launch, view>>

\* one round of the pointer chain: for (i = 0; i < 3; i++) { read; addr = ptr + PTR_CHAIN[i]; }
PointerRead ==
    /\ pc = "ptr"
    /\ memReads' = memReads + 1
    /\ trace' = Append(trace, "read")
    /\ \E ok \in BOOLEAN :
        IF ~ok
        THEN /\ g_statusMsg' = Msg("Pointer resolve failed")
             /\ pc' = "done"
             /\ UNCHANGED ptrI
        ELSE /\ ptrI' = ptrI + 1
             /\ pc' = IF ptrI + 1 < 3 THEN "ptr" ELSE "malloc"
             /\ UNCHANGED g_statusMsg
    /\ UNCHANGED <<running, kDown, g_showAbout, g_spawners, g_entries, g_selIdx,
                   g_selSpawner, g_gameVersion, g_detectedBid, romfs, stash,
                   dmntOpen, buf, i, hash, pa9, specInt, ndex, acc,
                   hadEntries, launch, view>>

\* mutant: the failure path leaves without free(buf)
onStashReadFailed_Leak(t) == t

\* if (R_FAILED(rc)) { ...; free(buf); goto done; }  (main.cpp:471)
onStashReadFailed(t) == Append(t, "free")

\* buf = malloc(SHINY_STASH_SIZE) and the stash read into it (main.cpp:467-471)
StashRead ==
    /\ pc = "malloc"
    /\ \E mem \in BOOLEAN :
        IF ~mem
        THEN /\ g_statusMsg' = Msg("malloc failed")
             /\ pc' = "done"
             /\ UNCHANGED <<memReads, stash, buf, trace>>
        ELSE /\ memReads' = memReads + 1
             /\ \E ok \in BOOLEAN :
                 IF ~ok
                 THEN /\ g_statusMsg' = Msg("Stash read failed")
                      /\ trace' = onStashReadFailed(trace \o <<"malloc", "read">>)
                      /\ pc' = "done"
                      /\ UNCHANGED <<stash, buf>>
                 ELSE \E snap \in Snapshots :
                      /\ stash' = snap[1]
                      /\ buf' = snap[2]
                      /\ trace' = trace \o <<"malloc", "read">>
                      /\ pc' = "loop"
                      /\ UNCHANGED g_statusMsg
    /\ UNCHANGED <<running, kDown, g_showAbout, g_spawners, g_entries, g_selIdx,
                   g_selSpawner, g_gameVersion, g_detectedBid, romfs,
                   dmntOpen, i, hash, pa9, specInt, ndex, ptrI, acc,
                   hadEntries, launch, view>>

\* mutant: the terminator constant is not tested
IsTerminator_ZeroOnly(h) == h = ZERO_HASH

\* hash == 0 || hash == TERMINATOR_HASH
IsTerminator(h) == h = ZERO_HASH \/ h = TERMINATOR_HASH

\* mutant: the empty-slot test is missing
IsEmptySlot_Never(s) == FALSE

\* if (specInt == 0) continue;
IsEmptySlot(s) == s = 0

\* for (e : g_entries) if (e.hash == hash) { dup = true; break; }
IsDup(entries, h) == \E k \in 1..Len(entries) : entries[k].hash = h

\* mutant: no catalog filter
pushEntry_NoFilter(entries, h, s, n) ==
    IF IsDup(entries, h) THEN entries
    ELSE Append(entries, [hash |-> h, speciesInternal |-> s, nationalDex |-> n])

\* mutant: the new record goes to the front
pushEntry_Front(entries, h, s, n) ==
    IF findSpawner(h) = 0 THEN entries
    ELSE IF IsDup(entries, h) THEN entries
    ELSE <<[hash |-> h, speciesInternal |-> s, nationalDex |-> n]>> \o entries

\* mutant: no duplicate test
pushEntry_NoDedupe(entries, h, s, n) ==
    IF findSpawner(h) = 0 THEN entries
    ELSE Append(entries, [hash |-> h, speciesInternal |-> s, nationalDex |-> n])

\* the end of the loop body (main.cpp:488-494): g_entries after it
pushEntry(entries, h, s, n) ==
    IF findSpawner(h) = 0 THEN entries
    ELSE IF IsDup(entries, h) THEN entries
    ELSE Append(entries, [hash |-> h, speciesInternal |-> s, nationalDex |-> n])

\* the words of n bytes of b from byte offset o
Bytes(b, o, n) == SubSeq(b, (o \div 2) + 1, (o + n) \div 2)

\* mutant: the loop condition tests the slot's first byte, not its last
InLoop_Inclusive(o) == o <= SHINY_STASH_SIZE

\* i + ENTRY_SIZE <= SHINY_STASH_SIZE (main.cpp:473)
InLoop(o) == o + ENTRY_SIZE <= SHINY_STASH_SIZE

\* what decryptPA9(data, len) touches: the end of the words it XORs
\* (ptr[count - 1]), the number of those words, the end of the furthest
\* block it copies from data, the end of temp it fills and copies back, and
\* the last table entry it reads (order[3])
decryptAccess(data, len) ==
    LET count == (len - PKX_HEADER) \div 2
        sv    == Selector(data)
        ends  == { PKX_HEADER + (g_blockPos[(sv * 4) + b + 1] * PKX_BLOCK) + PKX_BLOCK
                     : b \in 0..3 }
    IN  [ xorWords |-> count,
          xorEnd   |-> PKX_HEADER + (2 * count),
          blockEnd |-> CHOOSE e \in ends : \A f \in ends : f <= e,
          tempEnd  |-> PKX_HEADER + (4 * PKX_BLOCK),
          tableMax |-> (sv * 4) + 3 ]

\* one test of the loop condition and, when it holds, one pass through the
\* body (main.cpp:473-495)
DecodeSlot ==
    /\ pc = "loop"
    /\ IF InLoop(i)
       THEN LET h == Bytes(buf, i, 8)
            IN  /\ hash' = h
                /\ IF IsTerminator(h)
                   THEN /\ pc' = "after"
                        /\ acc' = [slot |-> i, hashEnd |-> i + 8, copyEnd |-> 0,
                                   pa9Len |-> 0, dec |-> <<>>]
                        /\ UNCHANGED <<i, pa9, specInt, ndex, g_entries>>
                   ELSE /\ pa9' = decryptPA9(Bytes(buf, i + PA9_DATA_OFFSET, PA9_SIZE),
                                             PA9_SIZE)
                        /\ acc' = [slot |-> i, hashEnd |-> i + 8,
                                   copyEnd |-> i + PA9_DATA_OFFSET + PA9_SIZE,
                                   pa9Len |-> 2 * Len(pa9'),
                                   dec |-> decryptAccess(pa9', PA9_SIZE)]
                        /\ specInt' = pa9'[(PA9_SPECIES_OFF \div 2) + 1]
                        /\ i' = i + ENTRY_SIZE
                        /\ pc' = "loop"
                        /\ IF IsEmptySlot(specInt')
                           THEN UNCHANGED <<ndex, g_entries>>
                           ELSE /\ ndex' = getNational9(specInt')
                                /\ g_entries' = pushEntry(g_entries, h, specInt', ndex')
       ELSE /\ pc' = "after"
            /\ UNCHANGED <<i, hash, pa9, specInt, ndex, g_entries, acc>>
    /\ UNCHANGED <<running, kDown, g_showAbout, g_spawners, g_selIdx, g_selSpawner,
                   g_statusMsg, g_gameVersion, g_detectedBid, romfs, stash,
                   dmntOpen, memReads, buf, ptrI, trace, hadEntries, launch, view>>

\* free(buf) and the summary (main.cpp:496-503)
Summary ==
    /\ pc = "after"
    /\ buf' = <<>>
    /\ trace' = Append(trace, "free")
    /\ IF g_entries = <<>>
       THEN /\ g_statusMsg' = Msg("Shiny stash is empty")
            /\ UNCHANGED g_selSpawner
       ELSE /\ g_statusMsg' = LoadedMsg(Len(g_entries), g_gameVersion)
            /\ g_selSpawner' = updateSelection(g_selIdx, g_entries)
    /\ pc' = "done"
    /\ UNCHANGED <<running, kDown, g_showAbout, g_spawners, g_entries, g_selIdx,
                   g_gameVersion, g_detectedBid, romfs, stash, dmntOpen, memReads,
                   i, hash, pa9, specInt, ndex, ptrI, acc,
                   hadEntries, launch, view>>

\* done: dmntchtExit(); and the return
DmntExit ==
    /\ pc = "done"
    /\ dmntOpen' = FALSE
    /\ trace' = Append(trace, "exit")
    /\ NoLocals
    /\ pc' = "nav"
    /\ UNCHANGED <<running, kDown, g_showAbout, globals, romfs, stash, memReads,
                   hadEntries, launch, view>>

(***************************************************************************)
(* Map transform (main.cpp:71-91).  The code computes in double; the model *)
(* computes the same expressions exactly, on fractions <<n, d>> in lowest  *)
(* terms with d > 0.                                                       *)
(***************************************************************************)
RECURSIVE Gcd(_, _)
Gcd(a, b) == IF b = 0 THEN a ELSE Gcd(b, a % b)

Abs(n) == IF n < 0 THEN -n ELSE n

RNorm(n, d) ==
    LET g == Gcd(Abs(n), Abs(d))
        sg == IF d < 0 THEN -1 ELSE 1
    IN  <<sg * (n \div g), sg * (d \div g)>>

R(n) == <<n, 1>>

\* a + b, a - b, a * b, a / b; common factors are taken out before the
\* products are formed
RAdd(a, b) ==
    LET g == Gcd(a[2], b[2])
    IN  RNorm((a[1] * (b[2] \div g)) + (b[1] * (a[2] \div g)), (a[2] \div g) * b[2])

RSub(a, b) == RAdd(a, <<-b[1], b[2]>>)

RMul(a, b) ==
    LET g1 == Gcd(Abs(a[1]), b[2])
        g2 == Gcd(Abs(b[1]), a[2])
    IN  RNorm((a[1] \div g1) * (b[1] \div g2), (a[2] \div g2) * (b[2] \div g1))

RDiv(a, b) == RMul(a, IF b[1] < 0 THEN <<-b[2], -b[1]>> ELSE <<b[2], b[1]>>)

MapTransform(tw, th, rx, rz, sx, sz, dx, dz, ox, oz) ==
    [texW |-> tw, texH |-> th, rangeX |-> rx, rangeZ |-> rz, scaleX |-> sx,
     scaleZ |-> sz, dirX |-> dx, dirZ |-> dz, offsetX |-> ox, offsetZ |-> oz]

g_transforms == <<
    MapTransform(R(4096), R(4096), R(3940), R(3940), R(1000), R(1000),
                 R(-1), R(-1), R(500), R(500)),
    MapTransform(R(2160), R(2160), R(1662), R(2041),
                 RDiv(R(1662), <<10291021, 1000000>>),
                 RDiv(R(2041), <<10291021, 1000000>>),
                 R(-1), R(-1), R(-3), R(-80)),
    MapTransform(R(2160), R(2160), R(1364), R(1975),
                 RDiv(R(1364), <<62, 10>>), RDiv(R(1975), <<62, 10>>),
                 R(1), R(1), R(1), R(146)),
    MapTransform(R(2160), R(2160), R(1521), R(1966),
                 RDiv(R(1521), <<16714285, 1000000>>),
                 RDiv(R(1966), <<16714285, 1000000>>),
                 R(1), R(1), R(39), R(45)) >>

\* (texW / 2.0) + (dirX * ((rangeX / scaleX) * (x + offsetX)))
convertX(tr, wx) ==
    RAdd(RDiv(tr.texW, R(2)),
         RMul(tr.dirX, RMul(RDiv(tr.rangeX, tr.scaleX), RAdd(wx, tr.offsetX))))

\* (texH / 2.0) + (dirZ * ((rangeZ / scaleZ) * (z + offsetZ)))
convertZ(tr, wz) ==
    RAdd(RDiv(tr.texH, R(2)),
         RMul(tr.dirZ, RMul(RDiv(tr.rangeZ, tr.scaleZ), RAdd(wz, tr.offsetZ))))

\* mutant: the two world coordinates are handed over the wrong way round
project_Swapped(tr, wx, wz) == <<convertX(tr, wz), convertZ(tr, wx)>>

\* texX = tr.convertX(sp.x); texZ = tr.convertZ(sp.z);  (main.cpp:542-543)
project(tr, wx, wz) == <<convertX(tr, wx), convertZ(tr, wz)>>

\* world coordinates of the spawners, as distances from the map's centre
\* (-offset): whole numbers within 90 units of it
Around == {-90, -30, -10, 0, 7, 30, 90}

\* renderMap for a spawner at (worldX, worldZ) on map curMap
Project ==
    /\ pc = "render"
    /\ \E m \in 0..(Len(g_transforms) - 1), kx \in Around, kz \in Around :
        LET tr == g_transforms[m + 1]
        IN  /\ curMap' = m
            /\ worldX' = kx - tr.offsetX[1]
            /\ worldZ' = kz - tr.offsetZ[1]
            /\ texX' = project(tr, R(worldX'), R(worldZ'))[1]
            /\ texZ' = project(tr, R(worldX'), R(worldZ'))[2]
    /\ UNCHANGED <<pc, running, kDown, g_showAbout, globals, romfs, stash,
                   dmntOpen, memReads, locals, trace, hadEntries, launch>>

(***************************************************************************)
(* Specification                                                           *)
(***************************************************************************)
Init ==
    /\ pc = "boot"
    /\ running = TRUE
    /\ kDown = {}
    /\ g_showAbout = FALSE
    /\ g_spawners = <<>>
    /\ g_entries = <<>>
    /\ g_selIdx = 0
    /\ g_selSpawner = 0
    /\ g_statusMsg = Msg("Press A to read game memory")
    /\ g_gameVersion = ""
    /\ g_detectedBid = <<>>
    /\ romfs \in RomfsSets
    /\ stash = <<>>
    /\ dmntOpen = FALSE
    /\ memReads = 0
    /\ buf = <<>> /\ i = 0 /\ hash = ZERO_HASH /\ pa9 = <<>>
    /\ specInt = 0 /\ ndex = 0 /\ ptrI = 0
    /\ trace = <<>> /\ acc = <<>>
    /\ hadEntries = FALSE /\ launch = "fresh"
    /\ curMap = 0 /\ worldX = 0 /\ worldZ = 0 /\ texX = <<0, 1>> /\ texZ = <<0, 1>>

Next ==
    \/ loadData
    \/ Frame
    \/ FrameRest
    \/ DmntInit
    \/ DmntHasProc
    \/ DmntForceOpen
    \/ DmntMetadata
    \/ PointerRead
    \/ StashRead
    \/ DecodeSlot
    \/ Summary
    \/ DmntExit

Spec == Init /\ [][Next]_vars

\* the projection on its own: any spawner position on any map
InitProject ==
    /\ pc = "render"
    /\ running = TRUE
    /\ kDown = {}
    /\ g_showAbout = FALSE
    /\ g_spawners = <<>>
    /\ g_entries = <<>>
    /\ g_selIdx = 0
    /\ g_selSpawner = 0
    /\ g_statusMsg = Msg("Press A to read game memory")
    /\ g_gameVersion = ""
    /\ g_detectedBid = <<>>
    /\ romfs \in RomfsSets
    /\ stash = <<>>
    /\ dmntOpen = FALSE
    /\ memReads = 0
    /\ buf = <<>> /\ i = 0 /\ hash = ZERO_HASH /\ pa9 = <<>>
    /\ specInt = 0 /\ ndex = 0 /\ ptrI = 0
    /\ trace = <<>> /\ acc = <<>>
    /\ hadEntries = FALSE /\ launch = "fresh"
    /\ curMap = 0 /\ worldX = -500 /\ worldZ = -500
    /\ texX = R(2048) /\ texZ = R(2048)

NextProject == Project

SpecProject == InitProject /\ [][NextProject]_vars

(***************************************************************************)
(* Properties.  They are stated against stash, the plaintext description   *)
(* of what the game held when the stash was read, and against romfs, the   *)
(* catalog files, not against the decoder's own intermediate values.       *)
(***************************************************************************)
\* the decode loop of the last stash read has ended
Decoded == stash # <<>> /\ pc \in {"after", "done", "nav", "idle", "exited"}

\* the first slot (1-based) whose hash is 0 or 0xCBF29CE484222645, or
\* Len(d) + 1 when there is none
RECURSIVE FirstTerminator(_, _)
FirstTerminator(d, n) ==
    IF n > Len(d) THEN n
    ELSE IF d[n].hash = <<0, 0, 0, 0>> \/ d[n].hash = <<9797, 33826, 40164, 52210>>
    THEN n
    ELSE FirstTerminator(d, n + 1)

TermIdx == FirstTerminator(stash, 1)

\* some line of some spawner file carries hash h
Known(h) == \E f \in 1..Len(romfs) : \E l \in 1..Len(romfs[f]) : romfs[f][l].hash = h

\* slot n would yield a record if it were the first with its hash
Eligible(n) ==
    n < TermIdx /\ stash[n].species # 0 /\ Known(stash[n].hash)

Listed(h) == \E k \in 1..Len(g_entries) : g_entries[k].hash = h

MinOf(S) == CHOOSE n \in S : \A m \in S : n <= m

\* the first eligible slot carrying hash h (0 when none)
FirstEligible(h) ==
    LET S == {n \in 1..Len(stash) : Eligible(n) /\ stash[n].hash = h}
    IN  IF S = {} THEN 0 ELSE MinOf(S)

\* the first slot a record can have been decoded from (0 when none)
SlotOf(e) ==
    LET S == {n \in 1..Len(stash) :
                stash[n].hash = e.hash /\ stash[n].species = e.speciesInternal}
    IN  IF S = {} THEN 0 ELSE MinOf(S)

\* C1: decoding stops at the first slot whose hash is 0 or the terminator
\* constant: the loop never goes past it, every record comes from a slot
\* before it, and a stash whose slot 0 hash is 0 decodes to the empty list.
C1_StopsAtTerminator ==
    stash # <<>> =>
        /\ pc = "loop" => i \div 496 < TermIdx
        /\ \A k \in 1..Len(g_entries) :
              \E n \in 1..(TermIdx - 1) :
                  /\ stash[n].hash = g_entries[k].hash
                  /\ stash[n].species = g_entries[k].speciesInternal
        /\ stash[1].hash = <<0, 0, 0, 0>> => g_entries = <<>>

\* a terminator constant in slot 1 after one record, with a populated known
\* slot of another hash behind it
C1_Witness ==
    /\ pc = "idle" /\ stash # <<>>
    /\ TermIdx = 2 /\ stash[2].hash = <<9797, 33826, 40164, 52210>>
    /\ Len(g_entries) = 1
    /\ \E n \in 3..Len(stash) :
          stash[n].species # 0 /\ Known(stash[n].hash) /\ stash[n].hash # stash[1].hash

\* C2 (as claimed): a decoded record whose hash matches no catalog entry is
\* still present in the record list.
C2_UnmatchedKept ==
    Decoded =>
        \A n \in 1..(TermIdx - 1) :
            (stash[n].species # 0 /\ ~Known(stash[n].hash)) => Listed(stash[n].hash)

\* C2 (amended): a decoded record whose hash matches no catalog entry is
\* not added to the record list; every listed record has a catalog match
\* (findSpawner finds it), and the skip does not end the pass.
C2_UnmatchedSkipped ==
    stash # <<>> =>
        /\ \A k \in 1..Len(g_entries) :
              Known(g_entries[k].hash) /\ findSpawner(g_entries[k].hash) # 0
        /\ Decoded =>
              \A n \in 1..(TermIdx - 1) :
                  /\ ~Known(stash[n].hash) => ~Listed(stash[n].hash)
                  /\ Eligible(n) => Listed(stash[n].hash)

\* an unmatched populated slot, skipped, and a matched one after it listed
C2_Witness ==
    /\ pc = "idle" /\ stash # <<>>
    /\ \E n \in 1..(TermIdx - 1) :
          /\ stash[n].species # 0 /\ ~Known(stash[n].hash)
          /\ ~Listed(stash[n].hash)
          /\ \E m \in (n + 1)..(TermIdx - 1) : Eligible(m) /\ Listed(stash[m].hash)

\* C3: one decode pass yields at most 10 records, in slot order: the slots
\* the records were decoded from increase strictly along the list.
C3_BoundedOrdered ==
    stash # <<>> =>
        /\ Len(g_entries) <= 10
        /\ \A k \in 1..Len(g_entries) : SlotOf(g_entries[k]) # 0
        /\ \A k \in 1..(Len(g_entries) - 1) :
              SlotOf(g_entries[k]) < SlotOf(g_entries[k + 1])

\* ten records from ten slots
C3_Witness ==
    /\ pc = "idle" /\ stash # <<>>
    /\ Len(g_entries) = 10
    /\ \A k \in 1..10 : SlotOf(g_entries[k]) = k

\* C4: no two records of a pass share a hash; the record of a hash carries
\* the species of the earliest eligible slot with that hash, and the slots
\* after a duplicate are still decoded.
C4_FirstOccurrenceWins ==
    stash # <<>> =>
        /\ \A j, k \in 1..Len(g_entries) :
              g_entries[j].hash = g_entries[k].hash => j = k
        /\ \A k \in 1..Len(g_entries) :
              LET n == FirstEligible(g_entries[k].hash)
              IN  n # 0 /\ g_entries[k].speciesInternal = stash[n].species
        /\ Decoded => \A n \in 1..Len(stash) : Eligible(n) => Listed(stash[n].hash)

\* three eligible slots with one hash and different species, and records
\* decoded from slots behind the duplicates
C4_Witness ==
    /\ pc = "idle" /\ stash # <<>>
    /\ Eligible(1) /\ Eligible(2)
    /\ stash[1].hash = stash[2].hash /\ stash[1].species # stash[2].species
    /\ \E n \in 3..Len(stash) : Eligible(n) /\ stash[n].hash = stash[1].hash
    /\ g_entries[1].speciesInternal = stash[1].species
    /\ Len(g_entries) >= 3

\* C5: a slot with a non-terminator hash and species ordinal 0 emits no
\* record and does not end the pass: the loop goes on to the next slot, and
\* the eligible slots behind it are listed, with their own species when
\* their hash is new.
C5_EmptySlotSkipped ==
    stash # <<>> =>
        /\ \A k \in 1..Len(g_entries) : g_entries[k].speciesInternal # 0
        /\ \A n \in 1..(TermIdx - 1) :
              stash[n].species = 0 =>
                  /\ (pc = "loop" /\ i \div 496 = n) => specInt = 0
                  /\ Decoded =>
                        \A m \in (n + 1)..(TermIdx - 1) :
                            Eligible(m) =>
                                \E k \in 1..Len(g_entries) :
                                    /\ g_entries[k].hash = stash[m].hash
                                    /\ g_entries[k].speciesInternal
                                         = stash[FirstEligible(stash[m].hash)].species

\* an empty slot with a known hash first, and the record of the same hash
\* taken from a later slot
C5_Witness ==
    /\ pc = "idle" /\ stash # <<>>
    /\ TermIdx > 3
    /\ stash[1].species = 0 /\ Known(stash[1].hash)
    /\ \E m \in 2..(TermIdx - 1) :
          /\ Eligible(m) /\ stash[m].hash = stash[1].hash
          /\ g_entries[1].hash = stash[m].hash
          /\ g_entries[1].speciesInternal = stash[m].species

\* the bytes of the sub-block of slot n (1-based) in the snapshot buffer
RawSubBlock(n) == SubSeq(buf, ((n - 1) * 248) + 5, ((n - 1) * 248) + 176)

\* the loop has just decrypted slot i \div 496 (1-based) into pa9
JustDecrypted == stash # <<>> /\ pc = "loop" /\ i > 0

\* row[row[b]] = b for the table row selected by the seed of x
Involution(x) == \A b \in 0..3 : RefRow(x)[RefRow(x)[b]] = b

\* C6: round trip.  When a slot holds the encrypted form of x (its blocks
\* rearranged by the inverse of the selected row, then XORed with the
\* keystream of its seed), decryptPA9 returns exactly x.
C6_RoundTrip ==
    JustDecrypted =>
        LET x == PlainPA9(stash[i \div 496])
        IN  \/ pa9 = x
            \/ RawSubBlock(i \div 496) # EncryptPA9(x)

\* a round trip under selector 28, whose row (0,2,3,1) is no involution
C6_Witness ==
    /\ JustDecrypted
    /\ pa9 = PlainPA9(stash[i \div 496])
    /\ (pa9[1] \div 8192) + (8 * (pa9[2] % 4)) = 28
    /\ RefRow(pa9) = [b \in 0..3 |-> <<0, 2, 3, 1>>[b + 1]]

\* C7 (as claimed): re-applying to the output of decryptPA9 its own
\* unshuffle step and then its keystream XOR returns the input bytes, for
\* every seed.
C7_SelfInverse ==
    JustDecrypted =>
        XorPhase(UnshufflePhase(pa9), 344) = RawSubBlock(i \div 496)

\* C7 (amended): the same, for the seeds whose selected table row is its own
\* inverse (selectors 0,1,2,5,6,7,14,16,21,23 and 24,25,26,29,30,31).
C7_SelfInverseInvolution ==
    (JustDecrypted /\ Involution(pa9)) =>
        XorPhase(UnshufflePhase(pa9), 344) = RawSubBlock(i \div 496)

\* a self-inverse row that moves blocks (0,1,3,2), undone by re-applying it
C7_Witness ==
    /\ JustDecrypted
    /\ RefRow(pa9) = [b \in 0..3 |-> <<0, 1, 3, 2>>[b + 1]]
    /\ pa9 # XorPhase(RawSubBlock(i \div 496), 344)
    /\ XorPhase(UnshufflePhase(pa9), 344) = RawSubBlock(i \div 496)

\* what the claim says getNational9 returns for ordinal o
C8_Expected(o) ==
    IF 917 <= o /\ o < 917 + 109 THEN o + g_t9[o - 917 + 1] ELSE o

C8_AllOrdinals == \A o \in 0..65535 : getNational9(o) = C8_Expected(o)

\* C8: getNational9(o) = o + g_t9[o - 917] for 917 <= o < 917 + 109 and o
\* otherwise, for every 16-bit ordinal; ordinal 920 resolves to 919; every
\* record carries the id so computed from its internal ordinal.
C8_SpeciesWindow ==
    /\ C8_AllOrdinals
    /\ getNational9(920) = 919
    /\ \A k \in 1..Len(g_entries) :
          g_entries[k].nationalDex = C8_Expected(g_entries[k].speciesInternal)

\* records decoded from ordinals 920 (inside the window) and 77 (outside)
C8_Witness ==
    /\ pc = "idle"
    /\ \E k \in 1..Len(g_entries) :
          g_entries[k].speciesInternal = 920 /\ g_entries[k].nationalDex = 919
    /\ \E k \in 1..Len(g_entries) :
          g_entries[k].speciesInternal = 1026 /\ g_entries[k].nationalDex = 1026

HashUniverse ==
    {KH(n) : n \in 1..10} \cup {H_LOWZERO, H_NEARTERM, UH, ZERO_HASH, TERMINATOR_HASH}

\* the first file (1-based) with a line of hash h, and the first such line
FirstFile(h) == MinOf({f \in 1..Len(romfs) : \E l \in 1..Len(romfs[f]) : romfs[f][l].hash = h})
FirstLine(f, h) == MinOf({l \in 1..Len(romfs[f]) : romfs[f][l].hash = h})

\* C9: findSpawner returns the catalog entry of the given hash; among
\* several, the first in catalog order (map 0 file first, then 1, 2, 3, line
\* order within a file); absent when no entry has the hash.
C9_FirstMatch ==
    pc # "boot" =>
        \A h \in HashUniverse :
            IF ~Known(h) THEN findSpawner(h) = 0
            ELSE LET r == findSpawner(h)
                     f == FirstFile(h)
                 IN  /\ r # 0
                     /\ g_spawners[r].hash = h
                     /\ g_spawners[r].mapIdx = f - 1
                     /\ g_spawners[r].location = romfs[f][FirstLine(f, h)].loc
                     /\ \A k \in 1..(r - 1) : g_spawners[k].hash # h

\* the selected record's hash has several catalog entries and the first is
\* the one selected, while a slot of the same stash found no entry
C9_Witness ==
    /\ pc = "idle" /\ stash # <<>> /\ g_entries # <<>>
    /\ g_selSpawner # 0
    /\ g_selSpawner = findSpawner(g_entries[g_selIdx + 1].hash)
    /\ \E k \in (g_selSpawner + 1)..Len(g_spawners) :
          /\ g_spawners[k].hash = g_spawners[g_selSpawner].hash
          /\ g_spawners[k].mapIdx > g_spawners[g_selSpawner].mapIdx
    /\ \E n \in 1..(TermIdx - 1) :
          stash[n].species # 0 /\ findSpawner(stash[n].hash) = 0

\* the last build id read matches no known version
UnknownBuild ==
    /\ g_detectedBid # <<>>
    /\ g_detectedBid # <<188,229,213,57,59,90,163,168>>
    /\ g_detectedBid # <<138,28,134,196,55,57,75,105>>
    /\ g_detectedBid # <<23,156,56,67,185,132,248,120>>

ReadFailures ==
    { Msg("dmntcht init failed"), Msg("No cheat process (is Atmosphere running?)"),
      Msg("Can't open cheat process"), Msg("Metadata read failed"),
      Msg("Pointer resolve failed"), Msg("malloc failed"), Msg("Stash read failed") }

\* C10: when the build id matches no known version the read reports
\* "Unsupported game version", a status no read failure uses, makes no
\* process-memory read (pointer chain or stash), decodes nothing and leaves
\* the record list empty.
C10_UnsupportedVersion ==
    /\ UnknownBuild <=> g_statusMsg = Msg("Unsupported game version")
    /\ UnknownBuild =>
          /\ pc \in {"done", "nav", "idle", "exited"}
          /\ g_statusMsg \notin ReadFailures
          /\ memReads = 0
          /\ stash = <<>> /\ buf = <<>> /\ pa9 = <<>>
          /\ g_entries = <<>>
          /\ g_gameVersion = ""

\* back in the main loop after an unsupported build id, following a read
\* that had detected a version
C10_Witness ==
    /\ pc = "idle"
    /\ UnknownBuild
    /\ g_statusMsg = Msg("Unsupported game version")
    /\ ~dmntOpen

\* the steps of readShinyStash before the stash has been read
BeforeStash == {"init", "hasproc", "forceopen", "meta", "ptr", "malloc"}

\* the status lines of a read that ended before the decode loop
FailedStatus ==
    ReadFailures \cup { Msg("Pokemon Legends: Z-A is not running"),
                        Msg("Unsupported game version") }

\* C11: a read supersedes the previous result.  Once a read has begun the
\* earlier list is gone; every record of the list is decoded from a slot of
\* the snapshot of the last read; the selection index is 0 throughout the
\* read and when it returns; a read that failed at any step leaves the list
\* empty.
C11_Supersedes ==
    /\ pc \in BeforeStash => g_entries = <<>>
    /\ (trace # <<>> /\ stash = <<>>) => g_entries = <<>>
    /\ stash # <<>> =>
          \A k \in 1..Len(g_entries) :
              \E n \in 1..Len(stash) :
                  /\ stash[n].hash = g_entries[k].hash
                  /\ stash[n].species = g_entries[k].speciesInternal
    /\ pc \in BeforeStash \cup {"loop", "after", "done", "nav"} => g_selIdx = 0
    /\ g_statusMsg \in FailedStatus => g_entries = <<>>

\* a second read has begun over a list of records, with a record other
\* than the first selected: the list is empty and the index 0 before the
\* first service call
C11_Witness ==
    /\ pc = "init"
    /\ hadEntries
    /\ g_gameVersion # ""
    /\ g_statusMsg = Msg("Reading...")
    /\ g_entries = <<>>
    /\ g_selIdx = 0

\* a call of readShinyStash has begun since launch
ReadStarted == trace # <<>> \/ pc \in BeforeStash

\* C12 (as claimed): after launch the stash is read without any button
\* being pressed: once the main loop has run a frame, no button having been
\* pressed since launch, a stash read has been started.
C12_AutoRead == launch = "quiet" => ReadStarted

\* displacements the doubling is tried with
Steps == {-5, 1, 4}

\* C13: for the parameters of a map, the projection is the affine map
\* pixelX = texW/2 + dirX*(rangeX/scaleX)*(worldX + offsetX), pixelY the
\* same in worldZ; pixelX does not depend on worldZ nor pixelY on worldX;
\* and doubling a world displacement from the position doubles the pixel
\* displacement on that axis.
C13_Affine ==
    LET tr == g_transforms[curMap + 1]
        wx == R(worldX)
        wz == R(worldZ)
        slopeX == RMul(tr.dirX, RDiv(tr.rangeX, tr.scaleX))
        slopeZ == RMul(tr.dirZ, RDiv(tr.rangeZ, tr.scaleZ))
    IN  /\ texX = RAdd(RDiv(tr.texW, R(2)), RMul(slopeX, RAdd(wx, tr.offsetX)))
        /\ texZ = RAdd(RDiv(tr.texH, R(2)), RMul(slopeZ, RAdd(wz, tr.offsetZ)))
        /\ \A k \in Around :
              /\ project(tr, wx, R(k - tr.offsetZ[1]))[1] = texX
              /\ project(tr, R(k - tr.offsetX[1]), wz)[2] = texZ
        /\ \A d \in Steps :
              /\ RSub(project(tr, R(worldX + (2 * d)), wz)[1], texX)
                   = RMul(R(2), RSub(project(tr, R(worldX + d), wz)[1], texX))
              /\ RSub(project(tr, wx, R(worldZ + (2 * d)))[2], texZ)
                   = RMul(R(2), RSub(project(tr, wx, R(worldZ + d))[2], texZ))

\* Lysandre Labs, 30 units and 7 units from the centre: 1080 - 308.73063
\* and 1080 - 72.037147
C13_Witness ==
    /\ pc = "render"
    /\ curMap = 1 /\ worldX = 33 /\ worldZ = 87
    /\ texX = <<77126937, 100000>>
    /\ texZ = <<1007962853, 1000000>>

\* C14: the keystream phase.  With s(0) the seed in bytes 0..3 and
\* s(k+1) = s(k) * 0x41C64E6D + 0x6073 mod 2^32, word k after the 8-byte
\* header (k = 0..167) is XORed with the top 16 bits of s(k+1), and the
\* header, seed included, comes out of decryptPA9 as it went in.  The
\* keystream is computed here byte by byte (RefKeystream); seed 1 gives the
\* states 0x41C6AEE0, 0xAC2115D3.
C14_Keystream ==
    /\ LcrngNext(<<1, 0>>) = <<44768, 16838>>
    /\ LcrngNext(<<44768, 16838>>) = <<5587, 44065>>
    /\ JustDecrypted =>
          LET raw == RawSubBlock(i \div 496)
              ks  == RefKeystream(<<raw[1] % 256, raw[1] \div 256,
                                    raw[2] % 256, raw[2] \div 256>>, 168)
              xd  == [k \in 1..172 |-> IF k <= 4 THEN raw[k]
                                       ELSE Xor16(raw[k], ks[k - 4])]
          IN  /\ pa9 = UnshufflePhase(xd)
              /\ SubSeq(pa9, 1, 4) = SubSeq(raw, 1, 4)

\* a sub-block under selector 0, whose blocks stay in place: what
\* decryptPA9 left is the input XORed word by word with the keystream
C14_Witness ==
    /\ JustDecrypted
    /\ (pa9[1] \div 8192) + (8 * (pa9[2] % 4)) = 0
    /\ pa9 # RawSubBlock(i \div 496)
    /\ pa9 = RefXor(RawSubBlock(i \div 496))
    /\ pa9[172] # RawSubBlock(i \div 496)[172]

\* words 5 + 40 b .. 44 + 40 b: the b-th 80-byte block after the header
BlockOf(d, b) == SubSeq(d, 5 + (40 * b), 44 + (40 * b))

\* C15: the unshuffle phase.  For every selector 0..31 (bits 13..17 of the
\* seed) output block b is the XOR-decrypted input block
\* g_blockPos[4*sel + b]; each of the 32 table rows is a permutation of
\* {0,1,2,3}, so every input block appears exactly once in the output; rows
\* 24..31 repeat rows 0..7.
C15_Unshuffle ==
    /\ Len(g_blockPos) = 128
    /\ \A sel \in 0..31 : {g_blockPos[(4 * sel) + b + 1] : b \in 0..3} = 0..3
    /\ \A sel \in 24..31 : \A b \in 0..3 :
          g_blockPos[(4 * sel) + b + 1] = g_blockPos[(4 * (sel - 24)) + b + 1]
    /\ JustDecrypted =>
          LET raw == RawSubBlock(i \div 496)
              xd  == RefXor(raw)
              sel == ((raw[1] \div 8192) % 8) + (8 * (raw[2] % 4))
          IN  /\ \A b \in 0..3 :
                    BlockOf(pa9, b) = BlockOf(xd, g_blockPos[(4 * sel) + b + 1])
              /\ \A c \in 0..3 : \E b \in 0..3 : BlockOf(pa9, b) = BlockOf(xd, c)
              /\ SubSeq(pa9, 165, 172) = SubSeq(xd, 165, 172)

\* selector 27, whose row (0,3,1,2) is that of selector 3: output block 1
\* is input block 3, and the arrangement is not the identity
C15_Witness ==
    /\ JustDecrypted
    /\ (pa9[1] \div 8192) + (8 * (pa9[2] % 4)) = 27
    /\ BlockOf(pa9, 1) = BlockOf(RefXor(RawSubBlock(i \div 496)), 3)
    /\ BlockOf(pa9, 1) # BlockOf(RefXor(RawSubBlock(i \div 496)), 1)
    /\ BlockOf(pa9, 3) = BlockOf(RefXor(RawSubBlock(i \div 496)), 2)

\* how often call e occurs in trace t
Count(t, e) == Cardinality({p \in 1..Len(t) : t[p] = e})

\* readShinyStash is not running
Outside == pc \in {"boot", "idle", "nav", "exited"}

\* C16: on every path through readShinyStash the session is closed
\* (dmntchtExit) exactly once if dmntchtInitialize succeeded and never
\* otherwise; every process-memory read lies after the successful open
\* and before the close; the snapshot buffer is freed exactly once on every
\* path that allocated it, the stash-read-failure path included.
C16_Bracketing ==
    /\ Count(trace, "init") + Count(trace, "initfail") <= 1
    /\ Count(trace, "exit") <= Count(trace, "init")
    /\ Count(trace, "free") <= Count(trace, "malloc")
    /\ Count(trace, "malloc") <= 1
    /\ \A p \in 1..Len(trace) :
          /\ trace[p] = "read" =>
                /\ \E q \in 1..(p - 1) : trace[q] = "init"
                /\ \A q \in 1..(p - 1) : trace[q] # "exit"
          /\ trace[p] = "free" => \E q \in 1..(p - 1) : trace[q] = "malloc"
          /\ trace[p] \in {"exit", "initfail"} => p = Len(trace)
    /\ dmntOpen <=> (Count(trace, "init") = 1 /\ Count(trace, "exit") = 0)
    /\ (Outside /\ trace # <<>>) =>
          /\ Count(trace, "exit") = Count(trace, "init")
          /\ Count(trace, "free") = Count(trace, "malloc")
          /\ buf = <<>>

\* back in the main loop after a read whose stash read failed: opened,
\* three pointer reads, the buffer allocated, the failed read, the buffer
\* freed, the session closed
C16_Witness ==
    /\ pc = "idle"
    /\ g_statusMsg = Msg("Stash read failed")
    /\ trace = <<"init", "read", "read", "read", "malloc", "read", "free", "exit">>
    /\ ~dmntOpen

\* C17: the decode reads and writes inside its buffers.  For every slot the
\* loop visits, the hash read and the sub-block copy lie inside the
\* 4960-byte snapshot (offset + 8 + 0x158 <= offset + 0x1F0 <= 4960);
\* decryptPA9 XORs 168 words ending at byte 0x158, copies four 80-byte
\* blocks that end inside the 0x158 bytes, and reads table entries up to
\* sel*4 + 3 <= 127 of 128; the snapshot holds the bytes that were read
\* for as long as the loop runs.
C17_InBounds ==
    /\ Len(g_blockPos) = 128
    /\ (pc = "loop" /\ InLoop(i)) =>
          /\ 0 <= i
          /\ i + 8 + 344 <= i + 496
          /\ i + 496 <= 4960
          /\ 2 * Len(buf) = 4960
    /\ acc # <<>> =>
          /\ 0 <= acc.slot
          /\ acc.hashEnd = acc.slot + 8
          /\ acc.hashEnd <= 4960
          /\ acc.copyEnd <= acc.slot + 496
          /\ acc.slot + 496 <= 4960
          /\ acc.dec # <<>> =>
                /\ acc.copyEnd = acc.slot + 8 + 344
                /\ acc.pa9Len = 344
                /\ acc.dec.xorWords = 168
                /\ acc.dec.xorEnd <= 344
                /\ acc.dec.blockEnd <= 344
                /\ acc.dec.tempEnd <= 344
                /\ acc.dec.tableMax <= 127
    /\ pc \in {"loop", "after"} => <<stash, buf>> \in Snapshots

\* the tenth slot has been decrypted and the loop condition is about to
\* fail: the copy ended at byte 4816 of 4960
C17_Witness ==
    /\ pc = "loop" /\ i = 4960
    /\ acc # <<>>
    /\ acc.slot = 4464 /\ acc.copyEnd = 4816
    /\ acc.dec.xorEnd = 344 /\ acc.dec.blockEnd = 328
    /\ acc.dec.tableMax = 39

\* C18: the selection invariant.  Whenever readShinyStash is not running,
\* whatever A, Up and Down presses came before, 0 <= g_selIdx, and
\* g_selIdx < size unless the list is empty; g_selSpawner is
\* findSpawner(hash of the selected record) when the list is non-empty and
\* null when it is empty; Up at index 0 and Down at the last index change
\* nothing.
C18_Selection ==
    Outside =>
        /\ 0 <= g_selIdx
        /\ g_entries = <<>> \/ g_selIdx < Len(g_entries)
        /\ g_entries # <<>> =>
              g_selSpawner = findSpawner(g_entries[g_selIdx + 1].hash)
        /\ g_entries = <<>> => (g_selSpawner = 0 /\ g_selIdx = 0)
        /\ g_selIdx = 0 =>
              Navigate({"Up"}, g_selIdx, g_selSpawner, g_entries)
                = <<g_selIdx, g_selSpawner>>
        /\ g_selIdx >= Len(g_entries) - 1 =>
              Navigate({"Down"}, g_selIdx, g_selSpawner, g_entries)
                = <<g_selIdx, g_selSpawner>>

\* the last of ten records is selected, on another map than the first,
\* after a read and nine Down presses
C18_Witness ==
    /\ pc = "idle"
    /\ Len(g_entries) = 10
    /\ g_selIdx = 9
    /\ g_selSpawner = findSpawner(g_entries[10].hash)
    /\ g_selSpawner # 0
    /\ g_selSpawner # findSpawner(g_entries[1].hash)

C19_AllDistinct == Cardinality({getNational9(o) : o \in 0..65535}) = 65536

C19_WindowOnto == {getNational9(o) : o \in 917..1025} = 917..1025

\* C19: getNational9 is injective over the 16-bit ordinals, and maps the
\* window 917..1025 onto itself: no two internal ordinals resolve to one
\* canonical id, none of the window leaves it, and two records of the list
\* with the same canonical id have the same internal ordinal.
C19_Injective ==
    /\ C19_AllDistinct
    /\ C19_WindowOnto
    /\ \A j, k \in 1..Len(g_entries) :
          g_entries[j].nationalDex = g_entries[k].nationalDex
              => g_entries[j].speciesInternal = g_entries[k].speciesInternal

\* records of ordinals 920 and 917, both inside the window, resolved to
\* 919 and 982
C19_Witness ==
    /\ pc = "idle"
    /\ \E j, k \in 1..Len(g_entries) :
          /\ g_entries[j].speciesInternal = 920 /\ g_entries[j].nationalDex = 919
          /\ g_entries[k].speciesInternal = 917 /\ g_entries[k].nationalDex = 982

\* C20: About-screen gating.  In a frame in which the About screen is
\* shown once the Minus toggle has been applied, A, Up and Down do nothing:
\* no read is started and the record list, the selection, the status line
\* and the read's traces stay as they were; the screen stays up unless B
\* is pressed, which closes it; Minus alone takes a shown screen down and
\* an absent one up; Plus ends the main loop, About screen or not.
C20_AboutGating ==
    [][\A k \in KDownSets :
          FrameK(k) =>
              LET shown == IF "Minus" \in k THEN ~g_showAbout ELSE g_showAbout
              IN  /\ shown =>
                        /\ pc' \in {"idle", "exited"}
                        /\ UNCHANGED <<g_entries, g_selIdx, g_selSpawner,
                                       g_statusMsg, g_detectedBid, stash,
                                       memReads, trace, dmntOpen>>
                        /\ g_showAbout' = ("B" \notin k)
                  /\ ~shown => g_showAbout' = FALSE
                  /\ "Plus" \in k =>
                        /\ running' = FALSE
                        /\ shown => pc' = "exited"]_vars

\* the About screen is up over a list of several records, one of them
\* selected by earlier Down presses
C20_Witness ==
    /\ pc = "idle"
    /\ g_showAbout
    /\ Len(g_entries) >= 2
    /\ g_selIdx = 1
    /\ g_selSpawner # 0

=============================================================================
